---- MODULE Spec2Model ----
(***************************************************************************)
(* Line classification and intersection resolution of doc_scanner/scanner. *)
(*                                                                         *)
(* Angles are integers in degrees (np.pi / 12 is 15, np.pi / 2 is 90).     *)
(* A DataFrame of lines is a record [columns, rows]: columns is the        *)
(* sequence of column labels, rows the sequence of rows in index order     *)
(* (the RangeIndex label ix of a row is its position).  A row's direction  *)
(* is "nan" until _set_value stores one.  The 'hits' column carries no     *)
(* value here: no statement of scanner.py after line 94 reads it.          *)
(*                                                                         *)
(* doc_scanner.math_utils (find_point_polar, points2line, intersection) is *)
(* not part of the sources at hand; its three functions follow section 4.1 *)
(* of the specification, over rationals with a two-digit trigonometric     *)
(* table.                                                                  *)
(***************************************************************************)
EXTENDS Integers, Sequences, FiniteSets, TLC

\* Longest line collection the peak finder hands over.
MaxLines == 3

\* err=np.pi * 1 / 12, in degrees.
DefaultErr == 15
\* np.pi / 2, in degrees.
RightAngle == 90
\* x = (0, 1000) when no contour image is given.
DefaultWidth == 1000
\* inplace: bool = True
DefaultInplace == TRUE

\* Tolerances a caller passes as err.
Errs == {DefaultErr, 2 * DefaultErr}
\* contour_image.shape[1] of the caller's image, or the default span.
Widths == {100, DefaultWidth}
\* (angle, intercept) of the lines the peak finder may report.
PolarLines ==
    {[angle |-> -15, intercept |-> 30], [angle |-> -10, intercept |-> 30],
     [angle |-> 0, intercept |-> 30], [angle |-> 45, intercept |-> 40],
     [angle |-> 75, intercept |-> 50], [angle |-> 90, intercept |-> 50]}

VARIABLES
    peaks,          \* the lines the peak finder found, in its order
    permuted,       \* the same lines with two of them exchanged
    lines,          \* the caller's DataFrame of lines
    out,            \* what _divide_line_orientation returned last
    outIsLines,     \* whether that is the caller's DataFrame itself
    intersections,  \* what _find_intersections returned last
    raised,         \* the exception the last call ended with, or "none"
    ret,            \* what select_edge returned last
    called,         \* the last call: [op, err, inplace]
    before,         \* the caller's DataFrame when the last call began
    twin            \* the same calls made on the permuted collection

vars == <<peaks, permuted, lines, out, outIsLines, intersections, raised,
          ret, called, before, twin>>

Abs(n) == IF n < 0 THEN -n ELSE n

RECURSIVE Gcd(_, _)
Gcd(a, b) == IF b = 0 THEN Abs(a) ELSE Gcd(Abs(b), Abs(a) % Abs(b))

\* The rational n / d in lowest terms with a positive denominator.
Frac(n, d) ==
    LET g == Gcd(n, d)
        s == IF d < 0 THEN -1 ELSE 1
    IN  <<(s * n) \div g, (s * d) \div g>>

----------------------------------------------------------------------------
(* DataFrames *)

\* pd.DataFrame(np.array(lines).T, columns=['hits', 'angle', 'intercept'])
DataFrame(found) ==
    [columns |-> <<"hits", "angle", "intercept">>,
     rows |-> [k \in 1..Len(found) |->
                 [angle |-> found[k].angle, intercept |-> found[k].intercept,
                  direction |-> "nan"]]]

NoFrame == [columns |-> <<>>, rows |-> <<>>]

HasColumn(frame, col) == \E k \in DOMAIN frame.columns : frame.columns[k] = col

\* list(lines): iterating a DataFrame yields its column labels.
ColumnLabels(frame) == frame.columns

\* out._set_value(ix, 'direction', direction): the column is created by the
\* first store (the other rows hold NaN), later stores overwrite in place.
SetDirection(frame, ix, direction) ==
    [columns |-> IF HasColumn(frame, "direction") THEN frame.columns
                 ELSE Append(frame.columns, "direction"),
     rows |-> [frame.rows EXCEPT ![ix].direction = direction]]

----------------------------------------------------------------------------
(* _divide_line_orientation *)

\* The comparisons with <= in place of <.
OrientationInclusive(angle, err) ==
    IF Abs(angle) <= err THEN "vertical"
    ELSE IF Abs(angle - RightAngle) <= err THEN "horizontal"
    ELSE "irrelevant"

\* The direction one pass of the loop body computes for a line.
Orientation(angle, err) ==
    IF Abs(angle) < err THEN "vertical"
    ELSE IF Abs(angle - RightAngle) < err THEN "horizontal"
    ELSE "irrelevant"

\* for ix, line in out.iterrows(): iterrows walks the rows as they were when
\* the loop began (snapshot), each store goes to out.
RECURSIVE IterRows(_, _, _, _)
IterRows(frame, snapshot, err, ix) ==
    IF ix > Len(snapshot) THEN frame
    ELSE IterRows(SetDirection(frame, ix, Orientation(snapshot[ix].angle, err)),
                  snapshot, err, ix + 1)

\* The loop stopping one row short.
RECURSIVE IterRowsButLast(_, _, _, _)
IterRowsButLast(frame, snapshot, err, ix) ==
    IF ix >= Len(snapshot) THEN frame
    ELSE IterRowsButLast(
             SetDirection(frame, ix, Orientation(snapshot[ix].angle, err)),
             snapshot, err, ix + 1)

DivideSkippingLastRow(frame, err, inplace) ==
    LET classified == IterRowsButLast(frame, frame.rows, err, 1)
    IN  [out |-> classified,
         lines |-> IF inplace THEN classified ELSE frame,
         same |-> inplace]

\* The copy taken unless inplace is false, that is: with the flag inverted.
DivideCopyingByDefault(frame, err, inplace) ==
    LET classified == IterRows(frame, frame.rows, err, 1)
    IN  [out |-> classified,
         lines |-> IF inplace THEN frame ELSE classified,
         same |-> ~inplace]

\* _divide_line_orientation(lines, err, inplace): out is the returned frame,
\* lines the caller's frame after the call, same whether out is that very
\* object (out = lines) or a copy (out = lines.copy()).
DivideLineOrientation(frame, err, inplace) ==
    LET classified == IterRows(frame, frame.rows, err, 1)
    IN  [out |-> classified,
         lines |-> IF inplace THEN classified ELSE frame,
         same |-> inplace]

----------------------------------------------------------------------------
(* doc_scanner.math_utils, after section 4.1 of the specification *)

\* 100 * cos(angle) and 100 * sin(angle), rounded.
Cos100(angle) ==
    CASE angle = -15 -> 97 [] angle = -10 -> 98 [] angle = 0 -> 100
      [] angle = 45 -> 71 [] angle = 75 -> 26 [] angle = 90 -> 0

Sin100(angle) ==
    CASE angle = -15 -> -26 [] angle = -10 -> -17 [] angle = 0 -> 0
      [] angle = 45 -> 71 [] angle = 75 -> 97 [] angle = 90 -> 100

\* find_point_polar(line, x): the y with x*cos(angle) + y*sin(angle) =
\* intercept at x[1] and x[2], as num[i] / den; no such y when sin(angle) = 0.
FindPointPolar(line, x) ==
    IF Sin100(line.angle) = 0
    THEN [error |-> "DegenerateGeometry", num |-> <<0, 0>>, den |-> 1]
    ELSE [error |-> "none",
          num |-> <<100 * line.intercept - x[1] * Cos100(line.angle),
                    100 * line.intercept - x[2] * Cos100(line.angle)>>,
          den |-> Sin100(line.angle)]

\* points2line(points): (a, b, c) of a*x + b*y = c through both endpoints, in
\* lowest integer terms; no line when the endpoints coincide.
Points2Line(x, y) ==
    IF x[1] = x[2]
    THEN [error |-> "DegenerateGeometry", a |-> 0, b |-> 0, c |-> 0]
    ELSE LET a == y.num[1] - y.num[2]
             b == (x[2] - x[1]) * y.den
             c == x[2] * y.num[1] - x[1] * y.num[2]
             g == Gcd(Gcd(a, b), c)
         IN  [error |-> "none", a |-> a \div g, b |-> b \div g, c |-> c \div g]

NoPoint == [x |-> <<0, 1>>, y |-> <<0, 1>>]

\* intersection(L1, L2) by Cramer's rule; none when the determinant is 0.
Intersection(L1, L2) ==
    LET D == L1.a * L2.b - L2.a * L1.b
    IN  IF D = 0
        THEN [error |-> "ParallelLines", point |-> NoPoint]
        ELSE [error |-> "none",
              point |-> [x |-> Frac(L1.c * L2.b - L2.c * L1.b, D),
                         y |-> Frac(L1.a * L2.c - L2.a * L1.c, D)]]

----------------------------------------------------------------------------
(* _pairwise_intersection and _find_intersections *)

\* _pairwise_intersection(horizontal_polar, vertical_polar, contour_image):
\* width is contour_image.shape[1], or 1000 without an image.  A failure of
\* a callee ends the call with that failure.
PairwiseIntersection(horizontal, vertical, width) ==
    LET x == <<0, width>>
        y_h == FindPointPolar(horizontal, x)
        y_v == FindPointPolar(vertical, x)
    IN  IF y_h.error # "none" THEN [error |-> y_h.error, point |-> NoPoint]
        ELSE IF y_v.error # "none" THEN [error |-> y_v.error, point |-> NoPoint]
        ELSE LET h == Points2Line(x, y_h)
                 v == Points2Line(x, y_v)
             IN  IF h.error # "none" THEN [error |-> h.error, point |-> NoPoint]
                 ELSE IF v.error # "none"
                      THEN [error |-> v.error, point |-> NoPoint]
                      ELSE Intersection(h, v)

\* lines['direction'] on a frame: a missing column label raises KeyError.
LookupDirection(frame) ==
    IF HasColumn(frame, "direction") THEN "none" ELSE "KeyError"

Rows(frame, direction) ==
    SelectSeq(frame.rows, LAMBDA r : r.direction = direction)

\* Every line that is not horizontal taken for vertical.
NotHorizontalLines(frame) ==
    SelectSeq(frame.rows, LAMBDA r : r.direction # "horizontal")

\* lines[lines['direction'] == 'vertical']
VerticalLines(frame) == Rows(frame, "vertical")

\* Every line that is not vertical taken for horizontal.
NotVerticalLines(frame) ==
    SelectSeq(frame.rows, LAMBDA r : r.direction # "vertical")

\* lines[lines['direction'] == 'horizontal']
HorizontalLines(frame) == Rows(frame, "horizontal")

\* zip in place of itertools.product.
Zipped(verticals, horizontals) ==
    LET n == IF Len(verticals) < Len(horizontals) THEN Len(verticals)
             ELSE Len(horizontals)
    IN  [k \in 1..n |-> <<verticals[k], horizontals[k]>>]

\* itertools.product(vertical_lines.iterrows(), horizontal_lines.iterrows()):
\* the pairs <<vertical, horizontal>>, the vertical line varying slowest.
Combinations(verticals, horizontals) ==
    [k \in 1..(Len(verticals) * Len(horizontals)) |->
        <<verticals[((k - 1) \div Len(horizontals)) + 1],
          horizontals[((k - 1) % Len(horizontals)) + 1]>>]

\* The loop over the combinations from the k-th on: each point is appended to
\* the points so far; a failing pair ends the call, which then returns nothing.
RECURSIVE AppendPoints(_, _, _, _)
AppendPoints(combinations, k, points, width) ==
    IF k > Len(combinations) THEN [raised |-> "none", intersections |-> points]
    ELSE LET got == PairwiseIntersection(combinations[k][2],
                                         combinations[k][1], width)
         IN  IF got.error # "none"
             THEN [raised |-> got.error, intersections |-> <<>>]
             ELSE AppendPoints(combinations, k + 1,
                               Append(points, got.point), width)

\* _find_intersections(lines, contour_image): lines is the caller's frame
\* after the call, raised the exception that ended it, intersections the
\* returned points.  The except clause handles ValueError alone.
FindIntersections(frame, width) ==
    LET exc == LookupDirection(frame)
        classified == IF exc = "ValueError"
                      THEN DivideLineOrientation(frame, DefaultErr,
                                                 DefaultInplace).lines
                      ELSE frame
    IN  IF exc \notin {"none", "ValueError"}
        THEN [lines |-> frame, raised |-> exc, intersections |-> <<>>]
        ELSE IF LookupDirection(classified) # "none"
        THEN [lines |-> classified, raised |-> LookupDirection(classified),
              intersections |-> <<>>]
        ELSE LET done == AppendPoints(
                             Combinations(VerticalLines(classified),
                                          HorizontalLines(classified)),
                             1, <<>>, width)
             IN  [lines |-> classified, raised |-> done.raised,
                  intersections |-> done.intersections]

NoReturn == [kind |-> "nothing", value |-> <<>>]

\* select_edge(result) without an axis to draw on: line 94 builds the frame
\* from the peak finder's lines, and the function returns list(lines).
SelectEdge(found, width) ==
    LET classified == DivideLineOrientation(DataFrame(found), DefaultErr,
                                            DefaultInplace).lines
        resolved == FindIntersections(classified, width)
    IN  [lines |-> resolved.lines,
         raised |-> resolved.raised,
         intersections |-> resolved.intersections,
         ret |-> IF resolved.raised # "none" THEN NoReturn
                 ELSE [kind |-> "column labels",
                       value |-> ColumnLabels(resolved.lines)]]

----------------------------------------------------------------------------
(* The calls *)

\* found with the lines at positions i and i + 1 exchanged.
Exchange(found, i) ==
    [k \in 1..Len(found) |->
        IF k = i THEN found[i + 1] ELSE IF k = i + 1 THEN found[i]
        ELSE found[k]]

Init ==
    /\ peaks \in UNION {[1..n -> PolarLines] : n \in 0..MaxLines}
    /\ permuted \in {peaks} \cup
           {Exchange(peaks, i) : i \in 1..(Len(peaks) - 1)}
    /\ lines = DataFrame(peaks)
    /\ out = NoFrame
    /\ outIsLines = FALSE
    /\ intersections = <<>>
    /\ raised = "none"
    /\ ret = NoReturn
    /\ called = [op |-> "none", err |-> DefaultErr, inplace |-> DefaultInplace]
    /\ before = DataFrame(peaks)
    /\ twin = [lines |-> DataFrame(permuted), out |-> NoFrame,
               intersections |-> <<>>, raised |-> "none"]

\* A caller runs _divide_line_orientation(lines, err, inplace).
CallDivideLineOrientation(err, inplace) ==
    LET done == DivideLineOrientation(lines, err, inplace)
        other == DivideLineOrientation(twin.lines, err, inplace)
    IN  /\ lines' = done.lines
        /\ out' = done.out
        /\ outIsLines' = done.same
        /\ intersections' = <<>>
        /\ raised' = "none"
        /\ ret' = NoReturn
        /\ called' = [op |-> "_divide_line_orientation", err |-> err,
                      inplace |-> inplace]
        /\ before' = lines
        /\ twin' = [lines |-> other.lines, out |-> other.out,
                    intersections |-> <<>>, raised |-> "none"]
        /\ UNCHANGED <<peaks, permuted>>

\* A caller runs _find_intersections(lines, contour_image).
CallFindIntersections(width) ==
    LET done == FindIntersections(lines, width)
        other == FindIntersections(twin.lines, width)
    IN  /\ lines' = done.lines
        /\ out' = NoFrame
        /\ outIsLines' = FALSE
        /\ intersections' = done.intersections
        /\ raised' = done.raised
        /\ ret' = NoReturn
        /\ called' = [op |-> "_find_intersections", err |-> DefaultErr,
                      inplace |-> DefaultInplace]
        /\ before' = lines
        /\ twin' = [lines |-> other.lines, out |-> NoFrame,
                    intersections |-> other.intersections,
                    raised |-> other.raised]
        /\ UNCHANGED <<peaks, permuted>>

\* A caller runs select_edge(result): the frame it works on is its own, built
\* from the peak finder's lines, so the caller's frame stays as it is.
CallSelectEdge(width) ==
    LET done == SelectEdge(peaks, width)
        other == SelectEdge(permuted, width)
    IN  /\ out' = NoFrame
        /\ outIsLines' = FALSE
        /\ intersections' = done.intersections
        /\ raised' = done.raised
        /\ ret' = done.ret
        /\ called' = [op |-> "select_edge", err |-> DefaultErr,
                      inplace |-> DefaultInplace]
        /\ before' = lines
        /\ twin' = [twin EXCEPT !.out = NoFrame,
                                !.intersections = other.intersections,
                                !.raised = other.raised]
        /\ UNCHANGED <<peaks, permuted, lines>>

Next ==
    \/ \E err \in Errs, inplace \in BOOLEAN :
           CallDivideLineOrientation(err, inplace)
    \/ \E width \in Widths : CallFindIntersections(width)
    \/ \E width \in Widths : CallSelectEdge(width)

Spec == Init /\ [][Next]_vars

----------------------------------------------------------------------------
(* Properties *)

Divided == called.op = "_divide_line_orientation"
Resolved == called.op = "_find_intersections"
Selected == called.op = "select_edge"

\* The rows of a frame, as a set.
RowSet(frame) == {frame.rows[k] : k \in DOMAIN frame.rows}
\* The number of rows of a frame that carry the direction.
Count(frame, direction) ==
    Cardinality({k \in DOMAIN frame.rows : frame.rows[k].direction = direction})

\* C1: a line is vertical when |angle| < t, otherwise horizontal when
\* |angle - 90| < t, otherwise irrelevant, both comparisons strict; with
\* t = 15 degrees angle 0 is vertical, 90 horizontal, 45 irrelevant, and an
\* angle at distance exactly t from 0 or from 90 is not put in that bucket.
C1_OrientationRule ==
    Divided =>
        \A k \in DOMAIN out.rows :
            LET a == out.rows[k].angle
                d == out.rows[k].direction
                t == called.err
                nearZero == a < t /\ -a < t
                nearRight == a - 90 < t /\ 90 - a < t
            IN  /\ nearZero => d = "vertical"
                /\ (~nearZero /\ nearRight) => d = "horizontal"
                /\ (~nearZero /\ ~nearRight) => d = "irrelevant"
                /\ (t = 15 /\ a = 0) => d = "vertical"
                /\ (t = 15 /\ a = 90) => d = "horizontal"
                /\ (t = 15 /\ a = 45) => d = "irrelevant"
                /\ (a = t \/ a = -t) => d # "vertical"
                /\ (a = 90 - t \/ a = 90 + t) => d # "horizontal"

\* A classification with the default tolerance of a line on the boundary of
\* each bucket and of a line at angle 0.
C1_Witness ==
    /\ Divided
    /\ called.err = 15
    /\ \E k \in DOMAIN out.rows :
           out.rows[k].angle = -15 /\ out.rows[k].direction = "irrelevant"
    /\ \E k \in DOMAIN out.rows :
           out.rows[k].angle = 75 /\ out.rows[k].direction = "irrelevant"
    /\ \E k \in DOMAIN out.rows :
           out.rows[k].angle = 0 /\ out.rows[k].direction = "vertical"

\* Every line of the input is in the output at its place, with one of the
\* three directions.
Total ==
    Divided =>
        /\ Len(out.rows) = Len(before.rows)
        /\ \A k \in DOMAIN out.rows :
               /\ out.rows[k].angle = before.rows[k].angle
               /\ out.rows[k].intercept = before.rows[k].intercept
               /\ out.rows[k].direction \in
                      {"vertical", "horizontal", "irrelevant"}

\* Classifying again with the same tolerance gives every line the direction
\* it had.
Repeatable ==
    (Divided /\ called'.op = "_divide_line_orientation"
        /\ called'.err = called.err) => out'.rows = out.rows

\* C2: classification is total and deterministic: every input line carries
\* exactly one of the three directions afterwards, none is dropped or
\* duplicated, and classifying again with the same tolerance yields the same
\* direction for every line.
C2_TotalAndDeterministic == []Total /\ [][Repeatable]_vars

\* A frame classified a second time, holding a line of each direction.
C2_Witness ==
    /\ Divided
    /\ HasColumn(before, "direction")
    /\ out.rows = before.rows
    /\ \A d \in {"vertical", "horizontal", "irrelevant"} : Count(out, d) > 0

C4_PairFailureSkipped ==
    (Resolved \/ Selected) =>
        raised \notin {"ParallelLines", "DegenerateGeometry"}

\* C5, as stated: with no line from the peak finder select_edge ends without
\* an exception and with no corner candidate.
C5_EmptyInputGivesEmptyResult ==
    (Selected /\ Len(peaks) = 0) => (raised = "none" /\ intersections = <<>>)

\* C6, as stated: what select_edge returns is the point sequence that
\* _find_intersections produced for the classified lines.
C6_ReturnsIntersections ==
    (Selected /\ raised = "none") =>
        (ret.kind = "points" /\ ret.value = intersections)

C8_OnePointPerPair ==
    (Resolved /\ raised = "none") =>
        LET verticals == VerticalLines(before)
            horizontals == HorizontalLines(before)
        IN  /\ Len(intersections) <= Count(before, "vertical")
                                         * Count(before, "horizontal")
            /\ Len(intersections) = Len(verticals) * Len(horizontals)
            /\ \A i \in DOMAIN verticals, j \in DOMAIN horizontals :
                   intersections[(i - 1) * Len(horizontals) + j] =
                       PairwiseIntersection(horizontals[j], verticals[i],
                                            DefaultWidth).point

\* Two pairs with the same point, both in the result.
C8_Witness ==
    /\ Resolved
    /\ raised = "none"
    /\ \E i, j \in DOMAIN intersections :
           i # j /\ intersections[i] = intersections[j]

\* C9: exchanging lines of the input changes neither the direction a line
\* gets nor the set of points _find_intersections returns.
C9_OrderIndependent ==
    /\ Divided => RowSet(out) = RowSet(twin.out)
    /\ Resolved =>
           /\ RowSet(lines) = RowSet(twin.lines)
           /\ (raised = "none") <=> (twin.raised = "none")
           /\ {intersections[k] : k \in DOMAIN intersections} =
                  {twin.intersections[k] : k \in DOMAIN twin.intersections}

\* Two points resolved, which the exchanged input yields in the other order.
C9_Witness ==
    /\ Resolved
    /\ raised = "none"
    /\ permuted # peaks
    /\ Len(intersections) = 2
    /\ intersections[1] # intersections[2]
    /\ twin.intersections = <<intersections[2], intersections[1]>>

\* C10, as stated: on a frame without a 'direction' column
\* _find_intersections classifies the lines itself and goes on instead of
\* ending with the failed lookup.
C10_ClassifiesWhenUnclassified ==
    (Resolved /\ ~HasColumn(before, "direction")) =>
        /\ raised # "KeyError"
        /\ \A k \in DOMAIN lines.rows : lines.rows[k].direction # "nan"

====
